---- MODULE Spec2Model ----
(***************************************************************************)
(* Model of one reduce_fn call of src/src/reduce.rs: the inbound dispatch  *)
(* loop, the error-drain loop, one driver and one watcher per Task, the    *)
(* TaskSet registry and the bounded tokio channels that connect them.      *)
(* Every await of the source is a step of its own; the code between two    *)
(* awaits is one atomic action.                                            *)
(***************************************************************************)
EXTENDS Integers, Sequences, FiniteSets, TLC

(* ---------------- bounds of the model ---------------- *)
\* number of items the inbound stream delivers before it ends
MaxInbound == 2
\* largest Vec<Message> a reducer returns
MaxMessages == 2

(* ---------------- program constants ---------------- *)
KEY_JOIN_DELIMITER == ":"
\* channel::<Result<ReduceResponse, Status>>(1)
ResponseCapacity == 1
\* channel::<Error>(1)
ErrorCapacity == 1
\* channel::<ReduceRequest>(1)
TaskCapacity == 1

(* ---------------- values ---------------- *)
\* key tuples the host may send; <<"a","b">> and <<"a:b">> join to the same string
KeyTuples == {<<"a">>, <<"a", "b">>, <<"a:b">>}

RECURSIVE Join(_, _)
Join(keys, sep) ==
    IF Len(keys) = 0 THEN ""
    ELSE IF Len(keys) = 1 THEN keys[1]
    ELSE keys[1] \o sep \o Join(Tail(keys), sep)

\* variant: the registry key is the first member of the key tuple
TaskNameFirstKey(keys) == keys[1]
\* keys.join(KEY_JOIN_DELIMITER): the registry key of a key tuple
TaskName(keys) == Join(keys, KEY_JOIN_DELIMITER)

TaskNames == {TaskName(t) : t \in KeyTuples}

\* wire timestamps (seconds) of the windows the host may send
W1 == [start |-> 60, end |-> 120]
W2 == [start |-> 120, end |-> 180]
Windows == {W1, W2}

\* shared::utc_from_timestamp and shared::prost_timestamp_from_utc
utc_from_timestamp(t) == t
prost_timestamp_from_utc(t) == t

\* IntervalWindow::default(): both instants are the epoch
DefaultWindow == [start_time |-> 0, end_time |-> 0]
IntervalWindow(start_time, end_time) == [start_time |-> start_time, end_time |-> end_time]

\* variant: the slot is left at the proto default, the empty string
ProtoWindowNoSlot(iw) ==
    [start |-> prost_timestamp_from_utc(iw.start_time),
     end   |-> prost_timestamp_from_utc(iw.end_time),
     slot  |-> ""]
\* proto::Window { start, end, slot: "slot-0" } built from an IntervalWindow
ProtoWindow(iw) ==
    [start |-> prost_timestamp_from_utc(iw.start_time),
     end   |-> prost_timestamp_from_utc(iw.end_time),
     slot  |-> "slot-0"]

InternalError(msg) == [kind |-> "InternalError", msg |-> msg]
UserDefinedError(msg) == [kind |-> "UserDefinedError", msg |-> msg]
NoError == [kind |-> "none", msg |-> ""]

MsgInvalid == "Invalid ReduceRequest"
MsgWindows == "Exactly one window is required"
MsgTransport == "transport error"
MsgTaskSend == "Failed to send message to task"
MsgResponse == "Failed to send response back"
MsgEof == "Failed to send EOF message"
MsgPanic == "task panicked"

\* items of the inbound stream: Result<proto::ReduceRequest, Status>
\* the window the host sends with each key tuple: a record of <<"a:b">> differs in its
\* window from the records of <<"a">> and of <<"a", "b">>
WindowOf(t) == IF t = <<"a:b">> THEN W2 ELSE W1
ValidRequests ==
    {[ok |-> TRUE, payload |-> TRUE, keys |-> t, operation |-> TRUE,
      windows |-> <<WindowOf(t)>>] : t \in KeyTuples}
InvalidRequests ==
    {[ok |-> TRUE, payload |-> FALSE, keys |-> <<"a">>, operation |-> TRUE, windows |-> <<W1>>],
     [ok |-> TRUE, payload |-> TRUE, keys |-> <<"a">>, operation |-> FALSE, windows |-> <<>>],
     [ok |-> TRUE, payload |-> TRUE, keys |-> <<"a">>, operation |-> TRUE, windows |-> <<>>],
     [ok |-> TRUE, payload |-> TRUE, keys |-> <<"a">>, operation |-> TRUE, windows |-> <<W1, W1>>],
     [ok |-> FALSE, payload |-> FALSE, keys |-> <<"a">>, operation |-> FALSE, windows |-> <<>>]}
Requests == ValidRequests \cup InvalidRequests
\* no item is being handled
NoItem == [ok |-> TRUE, payload |-> FALSE, keys |-> <<>>, operation |-> FALSE, windows |-> <<>>]

\* the ReduceRequest handed to a reducer (keys and value of the payload)
ReduceRequest(keys, value) == [keys |-> keys, value |-> value]
NoRequest == [task |-> "", rr |-> ReduceRequest(<<>>, 0)]

\* items of the outbound channel: Result<proto::ReduceResponse, Status>
ResultItem(task, idx, iw) ==
    [failure |-> FALSE, eof |-> FALSE, result |-> TRUE, task |-> task,
     idx |-> idx, window |-> ProtoWindow(iw), err |-> NoError]
\* variant: the marker is built from IntervalWindow::default(), the window is not pinned
EofItemUnpinned(iw) ==
    [failure |-> FALSE, eof |-> TRUE, result |-> FALSE, task |-> "",
     idx |-> 0, window |-> ProtoWindow(DefaultWindow), err |-> NoError]
EofItem(iw) ==
    [failure |-> FALSE, eof |-> TRUE, result |-> FALSE, task |-> "",
     idx |-> 0, window |-> ProtoWindow(iw), err |-> NoError]
FailureItem(e) ==
    [failure |-> TRUE, eof |-> FALSE, result |-> FALSE, task |-> "",
     idx |-> 0, window |-> ProtoWindow(DefaultWindow), err |-> e]

(* ---------------- state ---------------- *)
VARIABLES
    \* inbound dispatch loop (reduce_fn, second spawn)
    inboundPc,      \* "next" | "taskSend" | "report" | "close" | "closeWait" | "reportEof" | "done" | "panicked" | "aborted"
    inboundErr,     \* the error the loop is sending on error_tx
    inboundReq,     \* the Task and ReduceRequest of the pending Task::send or Task::close
    nIn,            \* items taken from the inbound stream so far
    reduce_request, \* the item of the inbound stream the loop is handling
    \* TaskSet
    tasks,          \* keys of TaskSet.tasks
    window,         \* TaskSet.window
    \* Task, per registry key
    tx,             \* Task.tx is alive
    rx,             \* the reducer still holds the input receiver
    chan,           \* content of the Task's input channel
    driver,         \* "none" | "reducing" | "sending" | "report" | "done" | "panicked"
    watcher,        \* "none" | "wait" | "report" | "done" | "aborted"
    finished,       \* the oneshot: "empty" | "sent" | "dropped"
    md,             \* Metadata.interval_window of the Task
    taskKeys,       \* keys the reducer was invoked with
    pending,        \* messages of the reducer not yet sent
    \* outbound channel
    response,       \* content of the response channel
    response_rx,    \* the transport still holds response_rx
    \* error channel and error-drain loop (reduce_fn, first spawn)
    errors,         \* content of the error channel
    error_rx,       \* the error-drain loop still holds error_rx
    drainPc,        \* "recv" | "forward" | "shutdown" | "done" | "panicked"
    drainErr,       \* the error received by the error-drain loop
    shutdown,       \* number of messages sent on shutdown_tx
    \* history
    outLog,         \* every item placed on the response channel, in order
    errLog,         \* every error placed on the error channel, in order
    arrived,        \* per key: the valid ReduceRequests of the inbound stream, in arrival order
    received,       \* per key: the ReduceRequests the reducer received, in order
    inputEnded,     \* per key: the reducer returned after its input sequence had ended
    returned,       \* per key: number of messages the reducer returned
    created,        \* per key: number of creator.create() calls
    firstWindow     \* <<w>> once a valid record arrived: the IntervalWindow of the first one

inboundVars == <<inboundPc, inboundErr, inboundReq, nIn, reduce_request>>
setVars == <<tasks, window>>
taskVars == <<tx, rx, chan, driver, watcher, finished, md, taskKeys, pending>>
outVars == <<response, response_rx, outLog>>
errVars == <<errors, error_rx, errLog>>
drainVars == <<drainPc, drainErr, shutdown>>
histVars == <<arrived, received, inputEnded, returned, created, firstWindow>>
vars == <<inboundVars, setVars, taskVars, outVars, errVars, drainVars, histVars>>

\* reduce_fn up to its return: channels, TaskSet::new, both loops spawned
Init ==
    /\ inboundPc = "next"
    /\ inboundErr = NoError
    /\ inboundReq = NoRequest
    /\ nIn = 0
    /\ reduce_request = NoItem
    /\ tasks = {}
    /\ window = DefaultWindow
    /\ tx = [k \in TaskNames |-> FALSE]
    /\ rx = [k \in TaskNames |-> FALSE]
    /\ chan = [k \in TaskNames |-> <<>>]
    /\ driver = [k \in TaskNames |-> "none"]
    /\ watcher = [k \in TaskNames |-> "none"]
    /\ finished = [k \in TaskNames |-> "empty"]
    /\ md = [k \in TaskNames |-> DefaultWindow]
    /\ taskKeys = [k \in TaskNames |-> <<>>]
    /\ pending = [k \in TaskNames |-> <<>>]
    /\ response = <<>>
    /\ response_rx = TRUE
    /\ errors = <<>>
    /\ error_rx = TRUE
    /\ drainPc = "recv"
    /\ drainErr = NoError
    /\ shutdown = 0
    /\ outLog = <<>>
    /\ errLog = <<>>
    /\ arrived = [k \in TaskNames |-> <<>>]
    /\ received = [k \in TaskNames |-> <<>>]
    /\ inputEnded = [k \in TaskNames |-> FALSE]
    /\ returned = [k \in TaskNames |-> 0]
    /\ created = [k \in TaskNames |-> 0]
    /\ firstWindow = <<>>

(* ---------------- inbound dispatch loop ---------------- *)
\* validate_and_extract: the windows.len() != 1 test
\* variant: only an empty list of windows is rejected
WindowCountEmptyOnly(windows) == Len(windows) < 1
WindowCountBad(windows) == Len(windows) # 1

\* validate_and_extract: None with the error it reports, or Some((reduce_request, interval_window))
validate_and_extract(req, value) ==
    IF ~(req.payload /\ req.operation)
    THEN [some |-> FALSE, err |-> InternalError(MsgInvalid),
          rr |-> ReduceRequest(<<>>, 0), iw |-> DefaultWindow]
    ELSE IF WindowCountBad(req.windows)
    THEN [some |-> FALSE, err |-> InternalError(MsgWindows),
          rr |-> ReduceRequest(<<>>, 0), iw |-> DefaultWindow]
    ELSE [some |-> TRUE, err |-> NoError,
          rr |-> ReduceRequest(req.keys, value),
          iw |-> IntervalWindow(utc_from_timestamp(req.windows[1].start),
                                utc_from_timestamp(req.windows[1].end))]

\* the loop starts an error_tx.send(..).await and goes on with the next item afterwards
LoopReports(e) ==
    /\ inboundPc' = "report"
    /\ inboundErr' = e
    /\ inboundReq' = NoRequest
    /\ UNCHANGED <<setVars, taskVars, histVars>>

\* variant: the reducer is invoked with the joined key string as its only key
NewTaskJoinedKeys(keys, v) ==
    LET k == TaskName(keys)
    IN       /\ window' = v.iw
             /\ created' = [created EXCEPT ![k] = @ + 1]
             /\ tasks' = tasks \cup {k}
             /\ tx' = [tx EXCEPT ![k] = TRUE]
             /\ rx' = [rx EXCEPT ![k] = TRUE]
             /\ chan' = [chan EXCEPT ![k] = <<>>]
             /\ driver' = [driver EXCEPT ![k] = "reducing"]
             /\ watcher' = [watcher EXCEPT ![k] = "wait"]
             /\ finished' = [finished EXCEPT ![k] = "empty"]
             /\ md' = [md EXCEPT ![k] = v.iw]
             /\ taskKeys' = [taskKeys EXCEPT ![k] = <<k>>]
             /\ pending' = [pending EXCEPT ![k] = <<>>]
             /\ arrived' = [arrived EXCEPT ![k] = Append(@, v.rr)]
             /\ firstWindow' = IF firstWindow = <<>> THEN <<v.iw>> ELSE firstWindow
             /\ inboundPc' = "taskSend"
             /\ inboundReq' = [task |-> k, rr |-> v.rr]
             /\ UNCHANGED <<inboundErr, received, inputEnded, returned>>

\* TaskSet::create_and_write after the validation: the window is pinned, the factory
\* is invoked, Task::new spawns driver and watcher, the Task is inserted
NewTask(keys, v) ==
    LET k == TaskName(keys)
    IN       /\ window' = v.iw
             /\ created' = [created EXCEPT ![k] = @ + 1]
             /\ tasks' = tasks \cup {k}
             /\ tx' = [tx EXCEPT ![k] = TRUE]
             /\ rx' = [rx EXCEPT ![k] = TRUE]
             /\ chan' = [chan EXCEPT ![k] = <<>>]
             /\ driver' = [driver EXCEPT ![k] = "reducing"]
             /\ watcher' = [watcher EXCEPT ![k] = "wait"]
             /\ finished' = [finished EXCEPT ![k] = "empty"]
             /\ md' = [md EXCEPT ![k] = v.iw]
             /\ taskKeys' = [taskKeys EXCEPT ![k] = keys]
             /\ pending' = [pending EXCEPT ![k] = <<>>]
             /\ arrived' = [arrived EXCEPT ![k] = Append(@, v.rr)]
             /\ firstWindow' = IF firstWindow = <<>> THEN <<v.iw>> ELSE firstWindow
             /\ inboundPc' = "taskSend"
             /\ inboundReq' = [task |-> k, rr |-> v.rr]
             /\ UNCHANGED <<inboundErr, received, inputEnded, returned>>

\* variant: creator.create() is invoked before the record is validated
create_and_write_eager(keys, req) ==
    LET k == TaskName(keys)
        v == validate_and_extract(req, Len(arrived[k]) + 1)
    IN  IF ~v.some
        THEN /\ inboundPc' = "report"
             /\ inboundErr' = v.err
             /\ inboundReq' = NoRequest
             /\ created' = [created EXCEPT ![k] = @ + 1]
             /\ UNCHANGED <<setVars, taskVars, arrived, received, inputEnded, returned,
                            firstWindow>>
        ELSE NewTask(keys, v)

\* TaskSet::create_and_write up to the await of task.send
create_and_write(keys, req) ==
    LET k == TaskName(keys)
        v == validate_and_extract(req, Len(arrived[k]) + 1)
    IN  IF ~v.some THEN LoopReports(v.err)
        ELSE NewTask(keys, v)

\* variant: a record whose window differs from the pinned one is rejected
write_to_task_checked(keys, req) ==
    LET k == TaskName(keys)
        v == validate_and_extract(req, Len(arrived[k]) + 1)
    IN  IF ~v.some THEN LoopReports(v.err)
        ELSE IF v.iw # window THEN LoopReports(InternalError(MsgWindows))
        ELSE /\ arrived' = [arrived EXCEPT ![k] = Append(@, v.rr)]
             /\ firstWindow' = IF firstWindow = <<>> THEN <<v.iw>> ELSE firstWindow
             /\ inboundPc' = "taskSend"
             /\ inboundReq' = [task |-> k, rr |-> v.rr]
             /\ UNCHANGED <<inboundErr, setVars, taskVars, received, inputEnded,
                            returned, created>>

\* TaskSet::write_to_task up to the await of task.send
write_to_task(keys, req) ==
    LET k == TaskName(keys)
        v == validate_and_extract(req, Len(arrived[k]) + 1)
    IN  IF ~v.some THEN LoopReports(v.err)
        ELSE /\ arrived' = [arrived EXCEPT ![k] = Append(@, v.rr)]
             /\ firstWindow' = IF firstWindow = <<>> THEN <<v.iw>> ELSE firstWindow
             /\ inboundPc' = "taskSend"
             /\ inboundReq' = [task |-> k, rr |-> v.rr]
             /\ UNCHANGED <<inboundErr, setVars, taskVars, received, inputEnded,
                            returned, created>>

\* task_set.tasks.contains_key(&keys.join(KEY_JOIN_DELIMITER))
\* variant: the registry is searched for the key tuple, not for the joined string
KnownKeyByTuple(keys) == keys \in {taskKeys[k] : k \in tasks}
KnownKey(keys) == TaskName(keys) \in tasks

\* stream.next() yields an item: one iteration of the while-let up to its first await
InboundNext ==
    /\ inboundPc = "next"
    /\ nIn < MaxInbound
    /\ nIn' = nIn + 1
    /\ \E req \in Requests :
         /\ reduce_request' = req
         /\ IF ~req.ok THEN LoopReports(InternalError(MsgTransport))
            ELSE IF ~req.payload THEN LoopReports(InternalError(MsgInvalid))
            ELSE IF KnownKey(req.keys)
                 THEN write_to_task(req.keys, req)
                 ELSE create_and_write(req.keys, req)
    /\ UNCHANGED <<outVars, errVars, drainVars>>

\* the inbound task panics: its TaskSet is dropped, and with it every Task.tx
LoopPanics ==
    /\ inboundPc' = "panicked"
    /\ tasks' = {}
    /\ tx' = [k \in TaskNames |-> FALSE]
    /\ UNCHANGED <<inboundErr, inboundReq, reduce_request, window>>

\* variant: Task::send does not wait for capacity, the new request replaces the
\* undelivered one
InboundTaskSendOverwrite ==
    /\ inboundPc = "taskSend"
    /\ LET k == inboundReq.task IN
         \/ /\ ~rx[k]
            /\ inboundPc' = "report"
            /\ inboundErr' = InternalError(MsgTaskSend)
            /\ UNCHANGED <<chan, inboundReq, reduce_request>>
         \/ /\ rx[k]
            /\ chan' = [chan EXCEPT ![k] = <<inboundReq.rr>>]
            /\ inboundPc' = "next"
            /\ inboundReq' = NoRequest
            /\ reduce_request' = NoItem
            /\ UNCHANGED inboundErr
    /\ UNCHANGED <<nIn, setVars, tx, rx, driver, watcher, finished, md, taskKeys, pending,
                   outVars, errVars, drainVars, histVars>>

\* variant: `let _ = self.tx.send(rr).await`, a failed send is not reported
InboundTaskSendSilent ==
    /\ inboundPc = "taskSend"
    /\ LET k == inboundReq.task IN
         \/ /\ ~rx[k]
            /\ UNCHANGED chan
         \/ /\ rx[k]
            /\ Len(chan[k]) < TaskCapacity
            /\ chan' = [chan EXCEPT ![k] = Append(@, inboundReq.rr)]
    /\ inboundPc' = "next"
    /\ inboundReq' = NoRequest
    /\ reduce_request' = NoItem
    /\ UNCHANGED <<inboundErr, nIn, setVars, tx, rx, driver, watcher, finished, md, taskKeys,
                   pending, outVars, errVars, drainVars, histVars>>

\* Task::send: self.tx.send(rr).await
InboundTaskSend ==
    /\ inboundPc = "taskSend"
    /\ LET k == inboundReq.task IN
         \/ /\ ~rx[k]
            /\ inboundPc' = "report"
            /\ inboundErr' = InternalError(MsgTaskSend)
            /\ UNCHANGED <<chan, inboundReq, reduce_request>>
         \/ /\ rx[k]
            /\ Len(chan[k]) < TaskCapacity
            /\ chan' = [chan EXCEPT ![k] = Append(@, inboundReq.rr)]
            /\ inboundPc' = "next"
            /\ inboundReq' = NoRequest
            /\ reduce_request' = NoItem
            /\ UNCHANGED inboundErr
    /\ UNCHANGED <<nIn, setVars, tx, rx, driver, watcher, finished, md, taskKeys, pending,
                   outVars, errVars, drainVars, histVars>>

\* error_tx.send(..).await.expect(..) of the loop, of Task::send and of handle_error
InboundReport ==
    /\ inboundPc \in {"report", "reportEof"}
    /\ \/ /\ ~error_rx
          /\ LoopPanics
          /\ UNCHANGED <<errors, errLog>>
       \/ /\ error_rx
          /\ Len(errors) < ErrorCapacity
          /\ errors' = Append(errors, inboundErr)
          /\ errLog' = Append(errLog, inboundErr)
          /\ inboundPc' = IF inboundPc = "report" THEN "next" ELSE "done"
          /\ reduce_request' = NoItem
          /\ UNCHANGED <<inboundErr, inboundReq, tasks, window, tx>>
    /\ UNCHANGED <<nIn, rx, chan, driver, watcher, finished, md, taskKeys, pending,
                   outVars, error_rx, drainVars, histVars>>

\* stream.next() yields None: task_set.close() starts
InboundEnd ==
    /\ inboundPc = "next"
    /\ inboundPc' = "close"
    /\ UNCHANGED <<inboundErr, inboundReq, nIn, reduce_request, setVars, taskVars,
                   outVars, errVars, drainVars, histVars>>

\* variant: Task::close keeps the input sender and only waits for finished
CloseTaskKeepsSender(k) ==
    /\ inboundPc = "close"
    /\ k \in tasks
    /\ tasks' = tasks \ {k}
    /\ inboundPc' = "closeWait"
    /\ inboundReq' = [task |-> k, rr |-> ReduceRequest(<<>>, 0)]
    /\ UNCHANGED <<inboundErr, nIn, reduce_request, window, tx, rx, chan, driver, watcher,
                   finished, md, taskKeys, pending, outVars, errVars, drainVars, histVars>>

\* TaskSet::close, one turn of the drain loop; Task::close: drop(self.tx)
CloseTask(k) ==
    /\ inboundPc = "close"
    /\ k \in tasks
    /\ tasks' = tasks \ {k}
    /\ tx' = [tx EXCEPT ![k] = FALSE]
    /\ inboundPc' = "closeWait"
    /\ inboundReq' = [task |-> k, rr |-> ReduceRequest(<<>>, 0)]
    /\ UNCHANGED <<inboundErr, nIn, reduce_request, window, rx, chan, driver, watcher, finished, md,
                   taskKeys, pending, outVars, errVars, drainVars, histVars>>

\* Task::close: self.finished_rx.await has a result
\* variant: Task::close returns without awaiting finished_rx
FinishedNotAwaited(k) == TRUE
\* variant: the watcher signals finished only when the driver ended without a JoinError
FinishedOnOkOnly(k) == finished[k] # "empty" /\ driver[k] = "done"
FinishedReady(k) == finished[k] # "empty"

CloseWait ==
    /\ inboundPc = "closeWait"
    /\ FinishedReady(inboundReq.task)
    /\ inboundPc' = "close"
    /\ inboundReq' = NoRequest
    /\ UNCHANGED <<inboundErr, nIn, reduce_request, setVars, taskVars, outVars, errVars,
                   drainVars, histVars>>

\* variant: the marker is sent only when the call created a Task
SendEofIfTasks ==
    /\ inboundPc = "close"
    /\ tasks = {}
    /\ \/ /\ \A k \in TaskNames : created[k] = 0
          /\ inboundPc' = "done"
          /\ UNCHANGED <<inboundErr, response, outLog>>
       \/ /\ \E k \in TaskNames : created[k] > 0
          /\ ~response_rx
          /\ inboundPc' = "reportEof"
          /\ inboundErr' = InternalError(MsgEof)
          /\ UNCHANGED <<response, outLog>>
       \/ /\ \E k \in TaskNames : created[k] > 0
          /\ response_rx
          /\ Len(response) < ResponseCapacity
          /\ response' = Append(response, EofItem(window))
          /\ outLog' = Append(outLog, EofItem(window))
          /\ inboundPc' = "done"
          /\ UNCHANGED inboundErr
    /\ UNCHANGED <<inboundReq, nIn, reduce_request, setVars, taskVars, response_rx,
                   errVars, drainVars, histVars>>

\* TaskSet::close after the loop: response_stream.send(eof).await
SendEof ==
    /\ inboundPc = "close"
    /\ tasks = {}
    /\ \/ /\ ~response_rx
          /\ inboundPc' = "reportEof"
          /\ inboundErr' = InternalError(MsgEof)
          /\ UNCHANGED <<response, outLog>>
       \/ /\ response_rx
          /\ Len(response) < ResponseCapacity
          /\ response' = Append(response, EofItem(window))
          /\ outLog' = Append(outLog, EofItem(window))
          /\ inboundPc' = "done"
          /\ UNCHANGED inboundErr
    /\ UNCHANGED <<inboundReq, nIn, reduce_request, setVars, taskVars, response_rx,
                   errVars, drainVars, histVars>>

(* ---------------- Task: driver (first spawn of Task::new) ---------------- *)
\* the messages a reducer returns, named by their position in the Vec
Messages(n) == [i \in 1..n |-> i]

\* reducer.reduce: input.recv().await yields a request
ReducerRecv(k) ==
    /\ driver[k] = "reducing"
    /\ rx[k]
    /\ chan[k] # <<>>
    /\ received' = [received EXCEPT ![k] = Append(@, Head(chan[k]))]
    /\ chan' = [chan EXCEPT ![k] = Tail(@)]
    /\ UNCHANGED <<inboundVars, setVars, tx, rx, driver, watcher, finished, md, taskKeys,
                   pending, outVars, errVars, drainVars, arrived, inputEnded, returned,
                   created, firstWindow>>

\* variant: a Task whose reducer returned is taken out of the registry at once
ReducerReturnReaped(k, n) ==
    /\ driver[k] = "reducing"
    /\ inputEnded' = [inputEnded EXCEPT ![k] = (~tx[k] /\ chan[k] = <<>>)]
    /\ rx' = [rx EXCEPT ![k] = FALSE]
    /\ chan' = [chan EXCEPT ![k] = <<>>]
    /\ returned' = [returned EXCEPT ![k] = n]
    /\ pending' = [pending EXCEPT ![k] = Messages(n)]
    /\ driver' = [driver EXCEPT ![k] = IF n = 0 THEN "done" ELSE "sending"]
    /\ tasks' = tasks \ {k}
    /\ UNCHANGED <<inboundVars, window, tx, watcher, finished, md, taskKeys, outVars,
                   errVars, drainVars, arrived, received, created, firstWindow>>

\* reducer.reduce returns n messages, at any point the reducer chooses: after
\* input.recv() returned None (tx dropped and the channel empty) or before; rx is dropped
ReducerReturn(k, n) ==
    /\ driver[k] = "reducing"
    /\ inputEnded' = [inputEnded EXCEPT ![k] = (~tx[k] /\ chan[k] = <<>>)]
    /\ rx' = [rx EXCEPT ![k] = FALSE]
    /\ chan' = [chan EXCEPT ![k] = <<>>]
    /\ returned' = [returned EXCEPT ![k] = n]
    /\ pending' = [pending EXCEPT ![k] = Messages(n)]
    /\ driver' = [driver EXCEPT ![k] = IF n = 0 THEN "done" ELSE "sending"]
    /\ UNCHANGED <<inboundVars, setVars, tx, watcher, finished, md, taskKeys, outVars,
                   errVars, drainVars, arrived, received, created, firstWindow>>

\* reducer.reduce panics: the driver task ends with a JoinError, rx is dropped
ReducerPanic(k) ==
    /\ driver[k] = "reducing"
    /\ rx' = [rx EXCEPT ![k] = FALSE]
    /\ chan' = [chan EXCEPT ![k] = <<>>]
    /\ driver' = [driver EXCEPT ![k] = "panicked"]
    /\ UNCHANGED <<inboundVars, setVars, tx, watcher, finished, md, taskKeys, pending,
                   outVars, errVars, drainVars, histVars>>

\* variant: try_send instead of send().await, a message that finds the channel full
\* is skipped
DriverTrySend(k) ==
    /\ driver[k] = "sending"
    /\ \/ /\ ~response_rx
          /\ driver' = [driver EXCEPT ![k] = "report"]
          /\ UNCHANGED <<response, outLog, pending>>
       \/ /\ response_rx
          /\ LET item == ResultItem(k, Head(pending[k]), md[k]) IN
               IF Len(response) < ResponseCapacity
               THEN /\ response' = Append(response, item)
                    /\ outLog' = Append(outLog, item)
               ELSE UNCHANGED <<response, outLog>>
          /\ pending' = [pending EXCEPT ![k] = Tail(@)]
          /\ driver' = [driver EXCEPT ![k] = IF Len(pending[k]) = 1 THEN "done" ELSE "sending"]
    /\ UNCHANGED <<inboundVars, setVars, tx, rx, chan, watcher, finished, md, taskKeys,
                   response_rx, errVars, drainVars, histVars>>

\* variant: the driver takes the messages from the end of the Vec (messages.pop())
DriverSendLast(k) ==
    /\ driver[k] = "sending"
    /\ \/ /\ ~response_rx
          /\ driver' = [driver EXCEPT ![k] = "report"]
          /\ UNCHANGED <<response, outLog, pending>>
       \/ /\ response_rx
          /\ Len(response) < ResponseCapacity
          /\ LET item == ResultItem(k, pending[k][Len(pending[k])], md[k]) IN
               /\ response' = Append(response, item)
               /\ outLog' = Append(outLog, item)
          /\ pending' = [pending EXCEPT ![k] = SubSeq(@, 1, Len(@) - 1)]
          /\ driver' = [driver EXCEPT ![k] = IF Len(pending[k]) = 1 THEN "done" ELSE "sending"]
    /\ UNCHANGED <<inboundVars, setVars, tx, rx, chan, watcher, finished, md, taskKeys,
                   response_rx, errVars, drainVars, histVars>>

\* for message in messages: response_tx.send(Ok(..)).await
DriverSend(k) ==
    /\ driver[k] = "sending"
    /\ \/ /\ ~response_rx
          /\ driver' = [driver EXCEPT ![k] = "report"]
          /\ UNCHANGED <<response, outLog, pending>>
       \/ /\ response_rx
          /\ Len(response) < ResponseCapacity
          /\ LET item == ResultItem(k, Head(pending[k]), md[k]) IN
               /\ response' = Append(response, item)
               /\ outLog' = Append(outLog, item)
          /\ pending' = [pending EXCEPT ![k] = Tail(@)]
          /\ driver' = [driver EXCEPT ![k] = IF Len(pending[k]) = 1 THEN "done" ELSE "sending"]
    /\ UNCHANGED <<inboundVars, setVars, tx, rx, chan, watcher, finished, md, taskKeys,
                   response_rx, errVars, drainVars, histVars>>

\* variant: `continue` in place of `return`, the driver goes on with the next message
DriverReportAndGoOn(k) ==
    /\ driver[k] = "report"
    /\ \/ /\ ~error_rx
          /\ UNCHANGED <<errors, errLog>>
       \/ /\ error_rx
          /\ Len(errors) < ErrorCapacity
          /\ errors' = Append(errors, InternalError(MsgResponse))
          /\ errLog' = Append(errLog, InternalError(MsgResponse))
    /\ pending' = [pending EXCEPT ![k] = Tail(@)]
    /\ driver' = [driver EXCEPT ![k] = IF Len(pending[k]) = 1 THEN "done" ELSE "sending"]
    /\ UNCHANGED <<inboundVars, setVars, tx, rx, chan, watcher, finished, md, taskKeys,
                   outVars, error_rx, drainVars, histVars>>

\* let _ = udf_error_tx_clone.send(InternalError("Failed to send response back")).await; return
DriverReport(k) ==
    /\ driver[k] = "report"
    /\ \/ /\ ~error_rx
          /\ UNCHANGED <<errors, errLog>>
       \/ /\ error_rx
          /\ Len(errors) < ErrorCapacity
          /\ errors' = Append(errors, InternalError(MsgResponse))
          /\ errLog' = Append(errLog, InternalError(MsgResponse))
    /\ driver' = [driver EXCEPT ![k] = "done"]
    /\ UNCHANGED <<inboundVars, setVars, tx, rx, chan, watcher, finished, md, taskKeys,
                   pending, outVars, error_rx, drainVars, histVars>>

(* ---------------- Task: watcher (second spawn of Task::new) ---------------- *)
\* handle.await completes: Err(e) when the driver panicked
\* variant: the watcher ignores the JoinError
JoinErrIgnored(k) == FALSE
\* variant: the watcher takes every result of handle.await as an error
JoinErrAlways(k) == TRUE
JoinErr(k) == driver[k] = "panicked"

WatcherJoin(k) ==
    /\ watcher[k] = "wait"
    /\ driver[k] \in {"done", "panicked"}
    /\ IF JoinErr(k)
       THEN /\ watcher' = [watcher EXCEPT ![k] = "report"]
            /\ UNCHANGED finished
       ELSE /\ watcher' = [watcher EXCEPT ![k] = "done"]
            /\ finished' = [finished EXCEPT ![k] = "sent"]
    /\ UNCHANGED <<inboundVars, setVars, tx, rx, chan, driver, md, taskKeys, pending,
                   outVars, errVars, drainVars, histVars>>

\* variant: after a JoinError the watcher reports and ends without signalling finished,
\* keeping finished_tx alive
WatcherReportNoFinished(k) ==
    /\ watcher[k] = "report"
    /\ \/ /\ ~error_rx
          /\ UNCHANGED <<errors, errLog>>
       \/ /\ error_rx
          /\ Len(errors) < ErrorCapacity
          /\ errors' = Append(errors, UserDefinedError(MsgPanic))
          /\ errLog' = Append(errLog, UserDefinedError(MsgPanic))
    /\ watcher' = [watcher EXCEPT ![k] = "done"]
    /\ UNCHANGED <<inboundVars, setVars, tx, rx, chan, driver, finished, md, taskKeys,
                   pending, outVars, error_rx, drainVars, histVars>>

\* let _ = error_tx_clone.send(UserDefinedError(..)).await; then finished_tx.send(())
WatcherReport(k) ==
    /\ watcher[k] = "report"
    /\ \/ /\ ~error_rx
          /\ UNCHANGED <<errors, errLog>>
       \/ /\ error_rx
          /\ Len(errors) < ErrorCapacity
          /\ errors' = Append(errors, UserDefinedError(MsgPanic))
          /\ errLog' = Append(errLog, UserDefinedError(MsgPanic))
    /\ watcher' = [watcher EXCEPT ![k] = "done"]
    /\ finished' = [finished EXCEPT ![k] = "sent"]
    /\ UNCHANGED <<inboundVars, setVars, tx, rx, chan, driver, md, taskKeys, pending,
                   outVars, error_rx, drainVars, histVars>>

(* ---------------- error-drain loop (first spawn of reduce_fn) ---------------- *)
\* some clone of error_tx is still held by the inbound task, a driver or a watcher
\* variant: a clone of error_tx is captured by the error-drain task itself, so
\* error_rx.recv() never yields None
ErrorSenderKeptByDrain == TRUE
ErrorSendersAlive ==
    \/ inboundPc \notin {"done", "panicked", "aborted"}
    \/ \E k \in TaskNames : driver[k] \in {"reducing", "sending", "report"}
    \/ \E k \in TaskNames : watcher[k] \in {"wait", "report"}

\* some clone of response_tx is still held: by the error-drain task, by the TaskSet of
\* the inbound task or by a driver
ResponseSendersAlive ==
    \/ drainPc \notin {"done", "panicked"}
    \/ inboundPc \notin {"done", "panicked", "aborted"}
    \/ \E k \in TaskNames : driver[k] \in {"reducing", "sending", "report"}

\* variant: the result of error_rx.recv() is not matched, shutdown is signalled also
\* when the channel closed without an error
DrainRecvAlwaysShutdown ==
    /\ drainPc = "recv"
    /\ \/ /\ errors # <<>>
          /\ drainErr' = Head(errors)
          /\ errors' = Tail(errors)
          /\ drainPc' = "forward"
          /\ UNCHANGED error_rx
       \/ /\ errors = <<>>
          /\ ~ErrorSendersAlive
          /\ drainPc' = "shutdown"
          /\ error_rx' = FALSE
          /\ UNCHANGED <<drainErr, errors>>
    /\ UNCHANGED <<inboundVars, setVars, taskVars, outVars, errLog, shutdown, histVars>>

\* error_rx.recv().await: Some(error), or None when every sender is gone
DrainRecv ==
    /\ drainPc = "recv"
    /\ \/ /\ errors # <<>>
          /\ drainErr' = Head(errors)
          /\ errors' = Tail(errors)
          /\ drainPc' = "forward"
          /\ UNCHANGED error_rx
       \/ /\ errors = <<>>
          /\ ~ErrorSendersAlive
          /\ drainPc' = "done"
          /\ error_rx' = FALSE
          /\ UNCHANGED <<drainErr, errors>>
    /\ UNCHANGED <<inboundVars, setVars, taskVars, outVars, errLog, shutdown, histVars>>

\* response_tx.send(Err(error.into())).await.expect(..)
DrainForward ==
    /\ drainPc = "forward"
    /\ \/ /\ ~response_rx
          /\ drainPc' = "panicked"
          /\ error_rx' = FALSE
          /\ errors' = <<>>
          /\ UNCHANGED <<response, outLog>>
       \/ /\ response_rx
          /\ Len(response) < ResponseCapacity
          /\ response' = Append(response, FailureItem(drainErr))
          /\ outLog' = Append(outLog, FailureItem(drainErr))
          /\ drainPc' = "shutdown"
          /\ UNCHANGED <<error_rx, errors>>
    /\ UNCHANGED <<inboundVars, setVars, taskVars, response_rx, errLog, drainErr, shutdown,
                   histVars>>

\* where the error-drain task goes after shutdown_tx.send: it ends
\* variant: while-let instead of if-let, the task receives again
DrainLoops == "recv"
DrainAfter == "done"

\* shutdown_tx.send(()).await.expect(..); the task ends and error_rx is dropped
DrainShutdown ==
    /\ drainPc = "shutdown"
    /\ shutdown' = shutdown + 1
    /\ drainPc' = DrainAfter
    /\ error_rx' = (DrainAfter # "done")
    /\ errors' = IF DrainAfter = "done" THEN <<>> ELSE errors
    /\ UNCHANGED <<inboundVars, setVars, taskVars, outVars, errLog, drainErr, histVars>>

(* ---------------- transport: consumer of the response stream ---------------- *)
\* the transport polls the ReceiverStream
ConsumerRecv ==
    /\ response_rx
    /\ response # <<>>
    /\ response' = Tail(response)
    /\ UNCHANGED <<inboundVars, setVars, taskVars, response_rx, outLog, errVars, drainVars,
                   histVars>>

\* the transport drops the ReceiverStream (the client went away, or the stream failed)
ConsumerDrop ==
    /\ response_rx
    /\ response_rx' = FALSE
    /\ response' = <<>>
    /\ UNCHANGED <<inboundVars, setVars, taskVars, outLog, errVars, drainVars, histVars>>

(* ---------------- specification ---------------- *)
Next ==
    \/ InboundNext
    \/ InboundTaskSend
    \/ InboundReport
    \/ InboundEnd
    \/ \E k \in TaskNames : CloseTask(k)
    \/ CloseWait
    \/ SendEof
    \/ \E k \in TaskNames : ReducerRecv(k)
    \/ \E k \in TaskNames, n \in 0..MaxMessages : ReducerReturn(k, n)
    \/ \E k \in TaskNames : ReducerPanic(k)
    \/ \E k \in TaskNames : DriverSend(k)
    \/ \E k \in TaskNames : DriverReport(k)
    \/ \E k \in TaskNames : WatcherJoin(k)
    \/ \E k \in TaskNames : WatcherReport(k)
    \/ DrainRecv
    \/ DrainForward
    \/ DrainShutdown
    \/ ConsumerRecv
    \/ ConsumerDrop

Spec == Init /\ [][Next]_vars

\* tasks that run once they can are run; the transport polls the stream while it holds it.
\* The host may stop sending, a reducer may never return, the client may go away or stay.
Scheduled ==
    \/ InboundTaskSend
    \/ InboundReport
    \/ \E k \in TaskNames : CloseTask(k)
    \/ CloseWait
    \/ SendEof
    \/ \E k \in TaskNames : DriverSend(k)
    \/ \E k \in TaskNames : DriverReport(k)
    \/ \E k \in TaskNames : WatcherJoin(k)
    \/ \E k \in TaskNames : WatcherReport(k)
    \/ DrainRecv
    \/ DrainForward
    \/ DrainShutdown
    \/ ConsumerRecv

FairSpec == Spec /\ WF_vars(Scheduled)

(* ---------------- teardown: TaskSet::abort ---------------- *)
\* Task::abort: self.handle.abort(), where Task.handle is the JoinHandle of the second
\* spawn of Task::new (the watcher). A watcher that has not ended is cancelled and its
\* finished_tx is dropped; the JoinHandle of the driver, owned by the watcher, is
\* dropped with it, which detaches the driver. The Task is consumed: tx is dropped.
\* variant: TaskSet::abort drains the registry without calling Task::abort
AbortedWatcherKept(k) == watcher[k]
AbortedWatcher(k) ==
    IF watcher[k] \in {"wait", "report"} THEN "aborted" ELSE watcher[k]
AbortedFinished(k) ==
    IF watcher[k] \in {"wait", "report"} THEN "dropped" ELSE finished[k]

\* TaskSet::abort: for (_, task) in self.tasks.drain() { task.abort().await }, called by
\* the task that owns the TaskSet between two inbound items; the call has no await that
\* suspends, so the whole drain is one step
Abort ==
    /\ inboundPc = "next"
    /\ tasks # {}
    /\ inboundPc' = "aborted"
    /\ tasks' = {}
    /\ tx' = [k \in TaskNames |-> IF k \in tasks THEN FALSE ELSE tx[k]]
    /\ watcher' = [k \in TaskNames |-> IF k \in tasks THEN AbortedWatcher(k) ELSE watcher[k]]
    /\ finished' = [k \in TaskNames |-> IF k \in tasks THEN AbortedFinished(k) ELSE finished[k]]
    /\ UNCHANGED <<inboundErr, inboundReq, nIn, reduce_request, window, rx, chan, driver,
                   md, taskKeys, pending, outVars, errVars, drainVars, histVars>>

AbortNext == Next \/ Abort
AbortSpec == Init /\ [][AbortNext]_vars

(* ---------------- properties ---------------- *)
Range(s) == {s[i] : i \in DOMAIN s}
FailureIdx == {i \in DOMAIN outLog : outLog[i].failure}
EofIdx == {i \in DOMAIN outLog : outLog[i].eof}
\* positions in the reducer's Vec of the result items of Task k on the outbound channel
ResultsOf(k) ==
    LET OfTask(it) == it.result /\ it.task = k
        items == SelectSeq(outLog, OfTask)
    IN  [i \in DOMAIN items |-> items[i].idx]
Started == {k \in TaskNames : driver[k] # "none"}

\* C1: in a call whose inbound stream ended and in which no error was reported, the
\* outbound channel was given exactly one item with eof = true, it is the last item,
\* and every result item of every Task was placed before it.
C1_SingleMarker ==
    errLog = <<>> =>
        /\ \A i \in EofIdx : i = Len(outLog) /\ inboundPc = "done"
        /\ inboundPc = "done" =>
             /\ Cardinality(EofIdx) = 1
             /\ \A k \in Started :
                  /\ driver[k] = "done"
                  /\ pending[k] = <<>>
                  /\ ResultsOf(k) = Messages(returned[k])
C1_Witness ==
    /\ inboundPc = "done"
    /\ errLog = <<>>
    /\ Cardinality(Started) = 2
    /\ \A k \in Started : returned[k] = 1
    /\ Len(outLog) = 3

\* C2: every item placed on the outbound channel (result items and the marker) carries
\* the Window of the first valid inbound record of the call.
C2_WindowEcho ==
    \A i \in DOMAIN outLog :
        (~outLog[i].failure /\ firstWindow # <<>>) =>
            outLog[i].window = ProtoWindow(firstWindow[1])

\* C7: at most one failure item is ever placed on the outbound channel, and it carries
\* the first error of the error channel, whatever number of errors is reported.
C7_FirstErrorOnly ==
    /\ Cardinality(FailureIdx) <= 1
    /\ \A i \in FailureIdx : errLog # <<>> /\ outLog[i].err = errLog[1]
C7_Witness ==
    /\ Len(errLog) >= 2
    /\ errLog[2] # errLog[1]
    /\ Cardinality(FailureIdx) = 1
    /\ drainPc = "done"

\* C8: once a failure item was placed on the outbound channel, no end-of-window marker
\* is placed on it afterwards.
C8_NoMarkerAfterFailure ==
    \A i, j \in DOMAIN outLog : (i < j /\ outLog[i].failure) => ~outLog[j].eof

\* C9: the inbound loop survives every report of a missing payload, an invalid record
\* or a transport error: it reports the error and goes on to the next item.
C9_LoopKeepsDraining ==
    ~(/\ inboundPc = "panicked"
      /\ inboundErr.msg \in {MsgInvalid, MsgWindows, MsgTransport})

\* C10: no input channel and not the outbound channel holds more than one undelivered
\* item, and while no error is reported the messages a reducer returned are placed on
\* the outbound channel once each, in full: placed and still pending make up the Vec.
C10_Backpressure ==
    /\ Len(response) <= 1
    /\ \A k \in TaskNames : Len(chan[k]) <= 1
    /\ errLog = <<>> =>
         \A k \in TaskNames :
             driver[k] \in {"sending", "done"} =>
                 ResultsOf(k) \o pending[k] = Messages(returned[k])
C10_Witness ==
    /\ errLog = <<>>
    /\ response # <<>>
    /\ \E k \in TaskNames :
         /\ driver[k] = "sending"
         /\ returned[k] = MaxMessages
         /\ \E j \in TaskNames : j # k /\ response[1].task = j

\* Work left in the call: how far the inbound task, the drivers, the watchers and the
\* error-drain task are from their end, and the items the channels hold.
InboundRankOf ==
    [pc \in {"next", "report", "taskSend", "close", "closeWait", "reportEof", "done",
             "panicked", "aborted"} |->
        CASE pc = "report" -> 1
          [] pc = "taskSend" -> 2
          [] pc = "close" -> 2
          [] pc = "closeWait" -> 4
          [] pc = "reportEof" -> 1
          [] OTHER -> 0]
InboundRank ==
    InboundRankOf[inboundPc] +
    (IF inboundPc \in {"next", "report", "taskSend"}
     THEN 3 * Cardinality(TaskNames) + 5 + 4 * (MaxInbound - nIn)
     ELSE IF inboundPc \in {"close", "closeWait"} THEN 3 * Cardinality(tasks) ELSE 0)
DriverRankOf ==
    [pc \in {"none", "reducing", "sending", "report", "done", "panicked"} |->
        CASE pc = "none" -> MaxMessages + 4
          [] pc = "reducing" -> MaxMessages + 3
          [] pc = "sending" -> 2
          [] pc = "report" -> 1
          [] OTHER -> 0]
WatcherRankOf ==
    [pc \in {"none", "wait", "report", "done", "aborted"} |->
        CASE pc = "none" -> 3
          [] pc = "wait" -> 2
          [] pc = "report" -> 1
          [] OTHER -> 0]
DrainRankOf ==
    [pc \in {"recv", "forward", "shutdown", "done", "panicked"} |->
        CASE pc = "recv" -> 3
          [] pc = "forward" -> 2
          [] pc = "shutdown" -> 1
          [] OTHER -> 0]
TaskRank ==
    [k \in TaskNames |->
        2 * (DriverRankOf[driver[k]] + Len(pending[k]) + WatcherRankOf[watcher[k]])
        + Len(chan[k])]
TaskSeq ==
    CHOOSE s \in [1..Cardinality(TaskNames) -> TaskNames] :
        {s[i] : i \in DOMAIN s} = TaskNames
RECURSIVE SumTo(_, _)
SumTo(f, n) == IF n = 0 THEN 0 ELSE f[TaskSeq[n]] + SumTo(f, n - 1)
Remaining ==
    2 * (InboundRank + DrainRankOf[drainPc]) + SumTo(TaskRank, Len(TaskSeq))
    + Len(response) + Len(errors) + (IF response_rx THEN 1 ELSE 0)

\* every step of the call uses up some of the work left: no behaviour goes on for ever
EveryStepProgresses == [][Remaining' < Remaining]_vars

\* no task of the call can take a step and the transport has nothing to poll: the states
\* in which a behaviour of FairSpec comes to rest
Quiescent == ~ENABLED Scheduled

\* the call ended: the inbound task and every driver and watcher have terminated
CallOver ==
    /\ inboundPc \in {"done", "panicked"}
    /\ \A k \in Started : driver[k] \in {"done", "panicked"} /\ watcher[k] = "done"

\* the record carries a payload and an operation whose windows are not exactly one
BadWindows(req) == req.ok /\ req.payload /\ req.operation /\ Len(req.windows) # 1

C3_LeadsTo ==
    (errLog # <<>> /\ errLog[1] = InternalError(MsgWindows))
      ~> \/ /\ FailureItem(InternalError(MsgWindows)) \in Range(outLog)
            /\ shutdown = 1
         \/ ~response_rx
C4_LeadsTo ==
    (\E k \in TaskNames : driver[k] = "panicked")
      ~> \/ FailureIdx # {} /\ shutdown = 1
         \/ ~response_rx
C5_ExactlyTheRecords ==
    CallOver => \A k \in TaskNames : Range(received[k]) = Range(arrived[k])

\* C5 amended: one reducer per key; what it receives are valid inbound records whose
\* keys join to its registry key, each at most once; it has received all of them once
\* it returns after its input sequence ended.
C5_PerKeyGrouping ==
    \A k \in TaskNames :
        /\ created[k] <= 1
        /\ \A r \in Range(received[k]) :
              /\ Join(r.keys, KEY_JOIN_DELIMITER) = k
              /\ r \in Range(arrived[k])
        /\ Cardinality(Range(received[k])) = Len(received[k])
        /\ inputEnded[k] => Range(received[k]) = Range(arrived[k])
C5_Witness ==
    \E k \in TaskNames :
        /\ inputEnded[k]
        /\ Len(received[k]) = 2
        /\ received[k][1].keys # received[k][2].keys

\* C6: the requests a reducer received, followed by the one waiting in its input
\* channel, are the first valid inbound records of its key in their arrival order.
C6_FifoPerKey ==
    \A k \in TaskNames :
        LET got == received[k] \o chan[k] IN
            /\ Len(got) <= Len(arrived[k])
            /\ \A i \in DOMAIN got : got[i] = arrived[k][i]
C6_Witness ==
    \E k \in TaskNames :
        /\ Len(received[k]) = 1
        /\ Len(chan[k]) = 1
        /\ Len(arrived[k]) = 2

\* C11: Task::close on a Task whose driver has terminated and whose finished signal is
\* resolved (sent, or its sender dropped) can return at once, and from its call to its
\* return the inbound task places nothing on the outbound channel or the error channel.
C11_CloseOfEndedTask ==
    /\ [](\A k \in TaskNames :
            (/\ inboundPc = "closeWait"
             /\ inboundReq.task = k
             /\ driver[k] \in {"done", "panicked"}
             /\ finished[k] # "empty") => ENABLED CloseWait)
    /\ [][(inboundPc = "closeWait" /\ inboundPc' # "closeWait") =>
            /\ inboundPc' = "close"
            /\ finished[inboundReq.task] # "empty"
            /\ UNCHANGED <<outVars, errVars, taskVars>>]_vars
    /\ [][(inboundPc = "close" /\ inboundPc' = "closeWait") =>
            UNCHANGED <<outVars, errVars>>]_vars
\* Task::close is pending on a Task whose reducer panicked while the loop was still
\* sending to it: the driver ended and finished was sent
C11_Witness ==
    /\ inboundPc = "closeWait"
    /\ driver[inboundReq.task] = "panicked"
    /\ finished[inboundReq.task] = "sent"
    /\ InternalError(MsgTaskSend) \in Range(errLog)
    /\ Cardinality(Started) = 1

\* C12: the registry holds one Task per joined key string, and creator.create() has been
\* invoked exactly once for a key that has a valid record and never for another key; it
\* is invoked only for a key the registry does not hold, which it holds afterwards.
C12_OneTaskPerKey ==
    /\ [](\A k \in TaskNames :
            /\ created[k] = (IF arrived[k] # <<>> THEN 1 ELSE 0)
            /\ k \in tasks => (created[k] = 1 /\ driver[k] # "none"))
    /\ [][\A k \in TaskNames :
            created'[k] # created[k] =>
                /\ k \notin tasks
                /\ k \in tasks'
                /\ created'[k] = created[k] + 1]_vars
\* two different key tuples that join to the same string went to one Task
C12_Witness ==
    \E k \in tasks :
        /\ Len(arrived[k]) = 2
        /\ arrived[k][1].keys # arrived[k][2].keys
        /\ created[k] = 1
        /\ taskKeys[k] = arrived[k][1].keys

\* C13: once Task::abort has been invoked on a Task (its watcher was cancelled), the
\* Task's driver places no further item on the outbound channel.
C13_AbortCancelsDriver ==
    [][\A k \in TaskNames :
         watcher[k] = "aborted" =>
             ~(/\ Len(outLog') = Len(outLog) + 1
               /\ outLog'[Len(outLog')].result
               /\ outLog'[Len(outLog')].task = k)]_vars

\* the IntervalWindows of the valid records of the call
ObservedWindows ==
    {IntervalWindow(utc_from_timestamp(WindowOf(r.keys).start),
                    utc_from_timestamp(WindowOf(r.keys).end)) :
        r \in UNION {Range(arrived[k]) : k \in TaskNames}}

\* C14: when the call ended without an error and every reducer returned an empty Vec,
\* the outbound channel was given one item only: the marker, eof = true and no result,
\* with the Window of a valid inbound record (the Window, when the call saw only one).
C14_EmptyResult ==
    (/\ inboundPc = "done"
     /\ errLog = <<>>
     /\ Started # {}
     /\ \A k \in Started : returned[k] = 0) =>
        /\ Len(outLog) = 1
        /\ outLog[1].eof
        /\ ~outLog[1].result
        /\ ~outLog[1].failure
        /\ \E w \in ObservedWindows : outLog[1].window = ProtoWindow(w)
\* one valid record for one key, read by its reducer, which returned no message
C14_Witness ==
    /\ inboundPc = "done"
    /\ errLog = <<>>
    /\ Cardinality(Started) = 1
    /\ \A k \in Started : returned[k] = 0 /\ Len(received[k]) = 1 /\ inputEnded[k]
    /\ nIn = 1
    /\ Len(outLog) = 1
    /\ outLog[1].window = ProtoWindow(firstWindow[1])

\* the response stream has ended: no sender of the outbound channel is left and the
\* transport has taken every item
ResponseStreamEnded == ~ResponseSendersAlive /\ response = <<>> /\ response_rx

\* C15: in a call with no error whose inbound stream has ended, whose reducers have all
\* returned and whose consumer holds the stream, every Task signals finished, the marker
\* is sent, and after it every sender of the outbound channel is dropped, that of the
\* error-drain task included, so that the response stream ends. "Eventually" is stated
\* as for C3: every step uses up work left, and where the call rests all of it has
\* happened; the channel is never closed before the marker.
C15_Termination ==
    /\ EveryStepProgresses
    /\ []((/\ Quiescent
           /\ inboundPc # "next"
           /\ errLog = <<>>
           /\ response_rx
           /\ \A k \in TaskNames : driver[k] # "reducing") =>
              /\ \A k \in Started : finished[k] = "sent" /\ ~tx[k]
              /\ inboundPc = "done"
              /\ EofIdx = {Len(outLog)}
              /\ drainPc = "done"
              /\ ResponseStreamEnded)
    /\ []((errLog = <<>> /\ ~ResponseSendersAlive) => EofIdx # {})
\* a call with two Tasks whose reducers read their input to its end has come to rest
C15_Witness ==
    /\ ResponseStreamEnded
    /\ errLog = <<>>
    /\ inboundPc = "done"
    /\ Cardinality(Started) = 2
    /\ \A k \in Started : inputEnded[k] /\ returned[k] = 1 /\ Len(received[k]) = 1
    /\ Len(outLog) = 3

\* the record reached the loop without a transport error and fails the validation:
\* payload absent, operation absent, or a number of windows other than 1
FailsValidation(req) == req \in InvalidRequests /\ req.ok

\* C16: a record that fails validation is only reported: the loop never starts a
\* Task::send for it, and the step that takes it from the stream creates no Task, does
\* not invoke the factory and leaves the registry, the pinned window, every Task and every
\* input channel as they were; what reducers are given are valid records only.
C16_InvalidDropped ==
    /\ [](FailsValidation(reduce_request) =>
            /\ inboundPc \in {"report", "panicked"}
            /\ inboundReq = NoRequest
            /\ inboundErr \in {InternalError(MsgInvalid), InternalError(MsgWindows)})
    /\ [][(nIn' = nIn + 1 /\ FailsValidation(reduce_request')) =>
            UNCHANGED <<tasks, window, created, taskVars, arrived, received>>]_vars
    /\ [](inboundPc = "taskSend" =>
            /\ reduce_request \in ValidRequests
            /\ inboundReq.rr.keys = reduce_request.keys)
    /\ [](\A k \in TaskNames :
            \A r \in Range(received[k]) \cup Range(chan[k]) : r \in Range(arrived[k]))
\* a record with two windows for key "a", which has no Task, while "a:b" has one
C16_Witness ==
    /\ BadWindows(reduce_request)
    /\ inboundPc = "report"
    /\ tasks = {"a:b"}
    /\ created["a"] = 0
    /\ driver["a"] = "none"
    /\ window = md["a:b"]
    /\ Len(received["a:b"]) = 1

\* C17: finished is sent only by the watcher and only once the driver has terminated;
\* after a panic of the driver the watcher's send of the UserDefinedError (placed on the
\* error channel unless its receiver is gone) comes before, in the watcher's last step;
\* after a normal end the watcher sends finished at once and reports nothing, so that a
\* UserDefinedError on the error channel always has a panicked driver behind it.
C17_FinishedAfterDriver ==
    /\ [](\A k \in TaskNames :
            /\ finished[k] = "sent" => (driver[k] \in {"done", "panicked"} /\ watcher[k] = "done")
            /\ watcher[k] = "report" => (driver[k] = "panicked" /\ finished[k] = "empty"))
    /\ [][\A k \in TaskNames :
            (finished[k] = "empty" /\ finished'[k] = "sent") =>
                IF driver[k] = "panicked"
                THEN /\ watcher[k] = "report"
                     /\ \/ errLog' = Append(errLog, UserDefinedError(MsgPanic))
                        \/ ~error_rx /\ errLog' = errLog
                ELSE /\ driver[k] = "done"
                     /\ watcher[k] = "wait"
                     /\ errLog' = errLog]_vars
    /\ [](UserDefinedError(MsgPanic) \in Range(errLog) =>
            \E k \in TaskNames : driver[k] = "panicked")
\* one Task's reducer panicked and its error was placed before finished, the other
\* Task ended normally; both have signalled finished
C17_Witness ==
    /\ \E k \in TaskNames : driver[k] = "panicked" /\ finished[k] = "sent"
    /\ \E k \in TaskNames : driver[k] = "done" /\ finished[k] = "sent"
    /\ errLog = <<UserDefinedError(MsgPanic)>>

\* C18: a driver reports only after a send that found the outbound receiver gone; it
\* sends one InternalError("Failed to send response back") (placed on the error channel
\* unless its receiver is gone) and ends with the unsent messages left unsent; the
\* watcher can then join it, and where the call rests the Task's finished was sent.
C18_DriverSendFails ==
    /\ [](\A k \in TaskNames :
            /\ driver[k] = "report" => (~response_rx /\ pending[k] # <<>>)
            /\ (driver[k] = "done" /\ watcher[k] = "wait") => ENABLED WatcherJoin(k))
    /\ [][\A k \in TaskNames :
            (driver[k] = "sending" /\ ~response_rx /\ driver'[k] # "sending") =>
                driver'[k] = "report" /\ pending'[k] = pending[k] /\ outLog' = outLog]_vars
    /\ [][\A k \in TaskNames :
            (driver[k] = "report" /\ driver'[k] # "report") =>
                /\ driver'[k] = "done"
                /\ pending'[k] = pending[k]
                /\ outLog' = outLog
                /\ \/ errLog' = Append(errLog, InternalError(MsgResponse))
                   \/ ~error_rx /\ errLog' = errLog]_vars
    /\ [][\A k \in TaskNames :
            (driver[k] = "done" /\ pending[k] # <<>>) =>
                driver'[k] = "done" /\ pending'[k] = pending[k]]_vars
    /\ [](Quiescent => \A k \in TaskNames :
            (driver[k] = "done" /\ pending[k] # <<>>) => finished[k] = "sent")
\* the transport dropped the stream after the first of two messages: the driver reported
\* and ended with one message unsent, and finished was sent
C18_Witness ==
    \E k \in TaskNames :
        /\ driver[k] = "done"
        /\ returned[k] = 2
        /\ pending[k] = <<2>>
        /\ finished[k] = "sent"
        /\ errLog = <<InternalError(MsgResponse)>>

C20_TaskOrder ==
    \A k \in TaskNames :
        /\ Len(ResultsOf(k)) <= returned[k]
        /\ ResultsOf(k) = SubSeq(Messages(returned[k]), 1, Len(ResultsOf(k)))
\* the two messages of one Task with a message of the other Task and the failure item
\* of the error-drain task between them
C20_Witness ==
    /\ Len(outLog) = 4
    /\ outLog[1].result /\ outLog[4].result
    /\ outLog[1].task = outLog[4].task
    /\ outLog[1].idx = 1 /\ outLog[4].idx = 2
    /\ \E i \in {2, 3} : outLog[i].result /\ outLog[i].task # outLog[1].task
    /\ \E i \in {2, 3} : outLog[i].failure

\* C21: shutdown is signalled at most once in a call and only with the failure item
\* already placed on the outbound channel: the step that signals it is the error-drain
\* task's, after its forward; while no error is reported there is neither a shutdown
\* signal nor a failure item.
C21_ShutdownAfterFailure ==
    /\ [](/\ shutdown <= 1
          /\ shutdown = 1 => (FailureIdx # {} /\ errLog # <<>>)
          /\ drainPc = "shutdown" => (shutdown = 0 /\ FailureItem(drainErr) \in Range(outLog))
          /\ errLog = <<>> => (shutdown = 0 /\ FailureIdx = {}))
    /\ [][shutdown' # shutdown =>
            /\ shutdown' = shutdown + 1
            /\ drainPc = "shutdown"
            /\ outLog' = outLog
            /\ FailureIdx # {}]_vars
\* a result item, then the failure item, then the shutdown signal, with a second error
\* reported and discarded
C21_Witness ==
    /\ shutdown = 1
    /\ Len(outLog) >= 2
    /\ outLog[1].result
    /\ outLog[2].failure
    /\ Len(errLog) = 2
    /\ drainPc = "done"

\* C22 as stated: no error is ever being reported for a valid record of a key that
\* already had a Task.
C22_DeliveredWithoutError ==
    ~(/\ inboundPc = "report"
      /\ reduce_request \in ValidRequests
      /\ Len(arrived[inboundReq.task]) >= 2)

\* C22 amended: a valid record for a key that has a Task is handed unchanged to
\* Task::send for that Task, whatever its window, with the registry, the pinned window
\* and the Tasks left as they were and no error reported; the send puts it in the input
\* channel when the reducer holds its receiver; the only error ever reported for a valid
\* record is that of a Task::send that found the receiver dropped.
C22_KnownKeyRecord ==
    /\ [][(/\ nIn' = nIn + 1
           /\ reduce_request' \in ValidRequests
           /\ Join(reduce_request'.keys, KEY_JOIN_DELIMITER) \in tasks) =>
            LET k == Join(reduce_request'.keys, KEY_JOIN_DELIMITER) IN
              /\ inboundPc' = "taskSend"
              /\ inboundReq'.task = k
              /\ inboundReq'.rr.keys = reduce_request'.keys
              /\ arrived'[k] = Append(arrived[k], inboundReq'.rr)
              /\ UNCHANGED <<tasks, window, created, taskVars, errLog>>]_vars
    /\ [][(inboundPc = "taskSend" /\ inboundPc' # "taskSend" /\ rx[inboundReq.task]) =>
            /\ inboundPc' = "next"
            /\ chan'[inboundReq.task] = Append(chan[inboundReq.task], inboundReq.rr)
            /\ errLog' = errLog]_vars
    /\ []((inboundPc = "report" /\ reduce_request \in ValidRequests) =>
            /\ inboundErr = InternalError(MsgTaskSend)
            /\ ~rx[inboundReq.task])
\* the Task of "a:b" was created by a record of window W2; a record of the tuple
\* <<"a", "b">> with window W1 followed and was received by the same reducer, no error
C22_Witness ==
    /\ Len(received["a:b"]) = 2
    /\ received["a:b"][1].keys = <<"a:b">>
    /\ received["a:b"][2].keys = <<"a", "b">>
    /\ WindowOf(<<"a", "b">>) # WindowOf(<<"a:b">>)
    /\ window = IntervalWindow(W2.start, W2.end)
    /\ errLog = <<>>
    /\ tasks = {"a:b"}


\* C23: once TaskSet::close has returned the registry is empty and every Task created in
\* the call has lost its input sender and has finished; a sender is created once per key
\* and dropped once; close waits for a Task's finished signal only with that Task's
\* sender dropped and the Task out of the registry; while close runs, every Task
\* already taken from the registry except the one being waited for has finished, so the
\* marker is placed only after the last Task finished.
C23_CloseInTurn ==
    /\ [](inboundPc = "done" =>
            /\ tasks = {}
            /\ \A k \in TaskNames : created[k] > 0 => (~tx[k] /\ finished[k] # "empty"))
    /\ [](inboundPc = "closeWait" =>
            /\ ~tx[inboundReq.task]
            /\ inboundReq.task \notin tasks
            /\ created[inboundReq.task] = 1)
    /\ [](inboundPc \in {"close", "closeWait"} =>
            \A k \in TaskNames :
                (/\ created[k] > 0
                 /\ k \notin tasks
                 /\ ~(inboundPc = "closeWait" /\ inboundReq.task = k))
                => (~tx[k] /\ finished[k] # "empty"))
    /\ [](EofIdx # {} =>
            \A k \in TaskNames : created[k] > 0 => (~tx[k] /\ finished[k] # "empty"))
    /\ [][\A k \in TaskNames :
            /\ (tx[k] /\ ~tx'[k]) =>
                 \/ /\ inboundPc = "close"
                    /\ inboundPc' = "closeWait"
                    /\ inboundReq'.task = k
                    /\ k \in tasks
                    /\ tasks' = tasks \ {k}
                    /\ \A j \in TaskNames \ {k} : tx'[j] = tx[j]
                 \/ inboundPc' = "panicked"
            /\ (~tx[k] /\ tx'[k]) => (created[k] = 0 /\ created'[k] = 1)]_vars
\* two Tasks were created, close dropped both senders, both finished, the marker follows
C23_Witness ==
    /\ inboundPc = "done"
    /\ Cardinality({k \in TaskNames : created[k] > 0}) = 2
    /\ \A k \in TaskNames : created[k] > 0 => (~tx[k] /\ finished[k] = "sent")
    /\ EofIdx = {Len(outLog)}
    /\ tasks = {}


\* C24: the step of TaskSet::abort empties the registry, aborts the handle of every Task
\* that was registered (a watcher still running is cancelled, the Task's sender is gone)
\* and places nothing on the outbound channel; after it the registry stays empty and no
\* end-of-window marker is ever placed.
C24_AbortDrainsRegistry ==
    /\ [][(inboundPc # "aborted" /\ inboundPc' = "aborted") =>
            /\ tasks # {}
            /\ tasks' = {}
            /\ \A k \in tasks :
                 /\ ~tx'[k]
                 /\ watcher[k] \in {"wait", "report"} => watcher'[k] = "aborted"
                 /\ watcher[k] \notin {"wait", "report"} => watcher'[k] = watcher[k]
            /\ \A k \in TaskNames \ tasks : watcher'[k] = watcher[k]
            /\ outLog' = outLog
            /\ response' = response]_vars
    /\ [](inboundPc = "aborted" => (tasks = {} /\ EofIdx = {}))
\* abort ran with two Tasks registered whose watchers were still running; the registry
\* is empty and there is no marker
C24_Witness ==
    /\ inboundPc = "aborted"
    /\ Cardinality({k \in TaskNames : watcher[k] = "aborted"}) = 2
    /\ tasks = {}
    /\ EofIdx = {}
    /\ outLog # <<>>


\* C25: every item given to the outbound channel is a result item (eof = false, result
\* present), the end-of-window marker (eof = true, result absent) or the failure item;
\* a result item is placed by a driver and names a message its reducer returned, an item
\* with eof = true is placed only by TaskSet::close; every item that is not the failure
\* item has a window whose slot is "slot-0".
C25_ItemShapes ==
    /\ [](\A i \in DOMAIN outLog :
            LET it == outLog[i] IN
              /\ it.result => (/\ ~it.eof /\ ~it.failure
                               /\ it.task \in TaskNames
                               /\ driver[it.task] \notin {"none", "reducing", "panicked"}
                               /\ it.idx \in 1..MaxMessages)
              /\ it.eof => (~it.result /\ ~it.failure /\ it.task = "")
              /\ it.failure => (~it.result /\ ~it.eof)
              /\ it.result \/ it.eof \/ it.failure
              /\ ~it.failure => it.window.slot = "slot-0")
    /\ [](\A i \in DOMAIN response : response[i] \in Range(outLog))
    /\ [][Len(outLog') > Len(outLog) =>
            LET it == outLog'[Len(outLog')] IN
              /\ outLog' = Append(outLog, it)
              /\ it.eof <=> (inboundPc = "close" /\ inboundPc' = "done")
              /\ it.result <=> (/\ it.task \in TaskNames
                                /\ driver[it.task] = "sending"
                                /\ pending'[it.task] = Tail(pending[it.task])
                                /\ it.idx = Head(pending[it.task]))
              /\ it.failure <=> (drainPc = "forward" /\ drainPc' = "shutdown")]_vars
\* a result item of each of two messages and then the marker, all with slot "slot-0"
C25_Witness ==
    /\ Len(outLog) = 3
    /\ outLog[1].result /\ ~outLog[1].eof /\ outLog[1].window.slot = "slot-0"
    /\ outLog[2].result /\ ~outLog[2].eof /\ outLog[2].window.slot = "slot-0"
    /\ outLog[3].eof /\ ~outLog[3].result /\ outLog[3].window.slot = "slot-0"


C27_FailureCarriesPanic ==
    (/\ Cardinality({k \in TaskNames : driver[k] = "panicked"}) = 1
     /\ \A k \in TaskNames : driver[k] \in {"sending", "report", "done"} => inputEnded[k]
     /\ \A e \in Range(errLog) : e \in {UserDefinedError(MsgPanic), InternalError(MsgTaskSend)}
     /\ response_rx)
    => \A i \in FailureIdx : outLog[i].err = UserDefinedError(MsgPanic)


\* C28: while the inbound loop is dispatching, the registry holds exactly the keys for
\* which a Task was created, whatever became of their reducers; a key leaves the registry
\* only in TaskSet::close, in TaskSet::abort, or with the TaskSet when the inbound task
\* panics; a valid record for a registered key whose reducer has returned or panicked is
\* handed to Task::send of that Task and creates nothing; no key ever has a second
\* reducer.
C28_DeadTaskStaysRegistered ==
    /\ [](inboundPc \in {"next", "taskSend", "report"} =>
            tasks = {k \in TaskNames : created[k] > 0})
    /\ [](\A k \in TaskNames : created[k] <= 1)
    /\ [][\A k \in TaskNames :
            /\ (k \in tasks /\ k \notin tasks') =>
                 \/ inboundPc = "close" /\ inboundPc' = "closeWait" /\ inboundReq'.task = k
                 \/ inboundPc = "next" /\ inboundPc' = "aborted" /\ tasks' = {}
                 \/ inboundPc' = "panicked"
            /\ (/\ nIn' = nIn + 1
                /\ reduce_request' \in ValidRequests
                /\ Join(reduce_request'.keys, KEY_JOIN_DELIMITER) = k
                /\ created[k] = 1
                /\ driver[k] \in {"sending", "report", "done", "panicked"}) =>
                 /\ k \in tasks'
                 /\ inboundPc' = "taskSend"
                 /\ inboundReq'.task = k
                 /\ created' = created
                 /\ driver' = driver
                 /\ watcher' = watcher
                 /\ rx' = rx]_vars
\* the reducer of a key returned before its input ended; the key is still registered and
\* the second record of the key is being sent to that Task, no second reducer exists
C28_Witness ==
    \E k \in tasks :
        /\ driver[k] = "done"
        /\ ~inputEnded[k]
        /\ ~rx[k]
        /\ inboundPc = "taskSend"
        /\ inboundReq.task = k
        /\ Len(arrived[k]) = 2
        /\ created[k] = 1


\* C29 as stated: in a call whose inbound stream ends before any item no Task is
\* created, no error is reported, and when the inbound task has ended the outbound
\* channel was given the marker with the default window and nothing else.
C29_NoErrorOneMarker ==
    nIn = 0 =>
        /\ \A k \in TaskNames : created[k] = 0
        /\ errLog = <<>>
        /\ inboundPc \in {"done", "panicked"} => outLog = <<EofItem(DefaultWindow)>>

\* C29 amended: in a call whose inbound stream ends before any item, no Task is ever created
\* and nothing is registered; the only error such a call can report is that of a marker
\* send that found the consumer's receiver dropped; with the consumer still receiving no
\* error is reported and, once close has returned, the outbound channel was given one
\* item, the end-of-window marker with the default window of TaskSet::new.
C29_EmptyInbound ==
    nIn = 0 =>
        /\ \A k \in TaskNames : created[k] = 0 /\ driver[k] = "none" /\ watcher[k] = "none"
        /\ tasks = {}
        /\ window = DefaultWindow
        /\ FailureIdx = {}
        /\ errLog # <<>> => (errLog = <<InternalError(MsgEof)>> /\ ~response_rx)
        /\ Len(outLog) <= 1
        /\ \A i \in DOMAIN outLog :
              /\ outLog[i].eof /\ ~outLog[i].result /\ ~outLog[i].failure
              /\ outLog[i].window = ProtoWindow(DefaultWindow)
              /\ inboundPc = "done"
        /\ (inboundPc = "done" /\ errLog = <<>>) => Len(outLog) = 1
\* the empty call is over: the marker with the default window was placed and received,
\* the error-drain task ended without an error
C29_Witness ==
    /\ nIn = 0
    /\ inboundPc = "done"
    /\ outLog = <<EofItem(DefaultWindow)>>
    /\ response = <<>>
    /\ response_rx
    /\ errLog = <<>>
    /\ drainPc = "done"


\* the loop has seen the end of the inbound stream, or has ended itself
InboundEnded == inboundPc \in {"close", "closeWait", "reportEof", "done", "panicked"}

\* C30: no call deadlocks once its inbound stream has ended. Every step uses up work
\* left, so the call comes to rest; where it rests with no reducer running, the inbound
\* task, the error-drain task and every driver and watcher have terminated, with or
\* without errors; where it rests with reducers still running, one of them has a request
\* to read or its input ended, so a reducer that drains its input and returns (or
\* panics) is never what the call waits for in vain.
C30_NoDeadlock ==
    /\ EveryStepProgresses
    /\ []((/\ Quiescent
           /\ InboundEnded
           /\ \A k \in TaskNames : driver[k] # "reducing") =>
              /\ inboundPc \in {"done", "panicked"}
              /\ drainPc \in {"done", "panicked"}
              /\ ~error_rx
              /\ \A k \in TaskNames :
                    /\ driver[k] \in {"none", "done", "panicked"}
                    /\ watcher[k] \in {"none", "done"}
                    /\ created[k] > 0 => (finished[k] = "sent" /\ ~tx[k] /\ ~rx[k]))
    /\ []((/\ Quiescent
           /\ InboundEnded
           /\ \E k \in TaskNames : driver[k] = "reducing") =>
              \E k \in TaskNames :
                  /\ driver[k] = "reducing"
                  /\ chan[k] # <<>> \/ ~tx[k])
\* a call with a reducer panic and a second error has come to rest: the failure item was
\* forwarded, shutdown signalled, and every task of the call has terminated
C30_Witness ==
    /\ Quiescent
    /\ InboundEnded
    /\ Len(errLog) = 2
    /\ \E k \in TaskNames : driver[k] = "panicked" /\ watcher[k] = "done"
    /\ \A k \in TaskNames : driver[k] \in {"none", "done", "panicked"}
                            /\ watcher[k] \in {"none", "done"}
    /\ inboundPc \in {"done", "panicked"}
    /\ drainPc = "done"
    /\ shutdown = 1
    /\ Cardinality(Started) = 2

====
